---- MODULE Spec2Model ----
(***************************************************************************)
(* Model of src/main.py, the infrastructure orchestrator CLI:              *)
(* resolve_config (CLI > env > YAML > defaults), build_infra_params,       *)
(* run / require_tools / get_tool_version, check_tools,                    *)
(* validate_bicep_files and the action dispatch of main.                   *)
(*                                                                         *)
(* Python values are modelled as follows.                                  *)
(*   str    a sequence of one-character strings ("" is << >>)              *)
(*   None   the one-element sequence None (no str has a long element)      *)
(*   bool   BOOLEAN                                                        *)
(*   dict   a function; d.get(k, default) is DictGet(d, k, default)        *)
(*   a YAML value of unknown shape: a record tagged by kind                *)
(*          "none" (null), "scalar" (a truthy non-mapping: str, list,      *)
(*          number) or "map" (a mapping, field m)                          *)
(*   a call that may raise: a record [raised, value]                       *)
(***************************************************************************)
EXTENDS Integers, Sequences, FiniteSets, TLC

VARIABLES
    args,          \* argparse.Namespace handed to resolve_config
    env_vars,      \* what load_env_file returned
    yaml_config,   \* what load_yaml_config returned
    config,        \* the OrchestratorConfig, once resolved
    params,        \* what build_infra_params returned
    proc,          \* outcome of each external command (subprocess.run)
    tools,         \* the tool list handed to require_tools
    results,       \* what require_tools returned
    version,       \* what get_tool_version returned, per tool
    pc,            \* position of the run
    branch,        \* the branch of main's dispatch the run entered
    calls,         \* the checks main has invoked so far, in order
    exc,           \* the exception that ended the run, or NoExc
    exit_code      \* what main returned, or NoExit

vars == <<args, env_vars, yaml_config, config, params, proc, tools, results,
          version, pc, branch, calls, exc, exit_code>>

(***************************************************************************)
(* Bounds of the model.                                                    *)
(***************************************************************************)
MaxResources == 2      \* entries of a resources mapping
MaxNameLen == 2        \* characters of a resource name
MaxSet == 2            \* --set occurrences on the command line
MaxBicepFiles == 2     \* *.bicep files in the infra directory
MaxTools == 2          \* tools in a list handed to require_tools

(***************************************************************************)
(* Python values.                                                          *)
(***************************************************************************)
None == <<"<None>">>
EmptyStr == << >>

\* Python truthiness of an Optional[str].
Truthy(v) == v # None /\ v # EmptyStr

EmptyDict == [k \in {} |-> None]

\* d.get(k, default)
DictGet(d, k, default) == IF k \in DOMAIN d THEN d[k] ELSE default

\* d with d[k] = v
DictSet(d, k, v) == [x \in (DOMAIN d) \cup {k} |-> IF x = k THEN v ELSE d[x]]

\* d.update(e)
DictUpdate(d, e) ==
    [x \in (DOMAIN d) \cup (DOMAIN e) |-> IF x \in DOMAIN e THEN e[x] ELSE d[x]]

PyNone == [kind |-> "none"]
PyScalar == [kind |-> "scalar"]
PyMap(f) == [kind |-> "map", m |-> f]

\* isinstance(v, dict)
IsDict(v) == v.kind = "map"

Returned(v) == [raised |-> FALSE, value |-> v]
Raised(e) == [raised |-> TRUE, value |-> e]

Lowercase == <<"a", "b", "c", "d", "e", "f", "g", "h", "i", "j", "k", "l", "m",
               "n", "o", "p", "q", "r", "s", "t", "u", "v", "w", "x", "y", "z">>
Uppercase == <<"A", "B", "C", "D", "E", "F", "G", "H", "I", "J", "K", "L", "M",
               "N", "O", "P", "Q", "R", "S", "T", "U", "V", "W", "X", "Y", "Z">>

\* c.upper() and c.lower() of one character
Upper(c) ==
    IF \E i \in DOMAIN Lowercase : Lowercase[i] = c
    THEN Uppercase[CHOOSE i \in DOMAIN Lowercase : Lowercase[i] = c]
    ELSE c
Lower(c) ==
    IF \E i \in DOMAIN Uppercase : Uppercase[i] = c
    THEN Lowercase[CHOOSE i \in DOMAIN Uppercase : Uppercase[i] = c]
    ELSE c

\* All sequences over S of length at most n.
SeqsUpTo(S, n) == UNION {[1..k -> S] : k \in 0..n}

(***************************************************************************)
(* The string literals of main.py.                                         *)
(***************************************************************************)
S_location == <<"l", "o", "c", "a", "t", "i", "o", "n">>
S_environmentName ==
    <<"e", "n", "v", "i", "r", "o", "n", "m", "e", "n", "t", "N", "a", "m", "e">>
S_subscriptionId ==
    <<"s", "u", "b", "s", "c", "r", "i", "p", "t", "i", "o", "n", "I", "d">>
S_Sku == <<"S", "k", "u">>
S_eastus == <<"e", "a", "s", "t", "u", "s">>
S_dev == <<"d", "e", "v">>
S_default == <<"d", "e", "f", "a", "u", "l", "t">>
S_container_registry ==
    <<"c", "o", "n", "t", "a", "i", "n", "e", "r", "_",
      "r", "e", "g", "i", "s", "t", "r", "y">>
S_storage_account ==
    <<"s", "t", "o", "r", "a", "g", "e", "_", "a", "c", "c", "o", "u", "n", "t">>
S_ai_services == <<"a", "i", "_", "s", "e", "r", "v", "i", "c", "e", "s">>
S_search_service ==
    <<"s", "e", "a", "r", "c", "h", "_", "s", "e", "r", "v", "i", "c", "e">>

(***************************************************************************)
(* OrchestratorConfig.                                                     *)
(***************************************************************************)
\* The resources installed by __post_init__ when none are given.
DefaultResources ==
    PyMap(<<[name |-> S_container_registry, spec |-> PyMap([enabled |-> TRUE])],
            [name |-> S_storage_account, spec |-> PyMap([enabled |-> TRUE])],
            [name |-> S_ai_services, spec |-> PyMap([enabled |-> TRUE])],
            [name |-> S_search_service, spec |-> PyMap([enabled |-> TRUE])]>>)

\* bool(resources): None and the empty mapping are falsy.
ResourcesTruthy(r) ==
    CASE r.kind = "none" -> FALSE
      [] r.kind = "map" -> Len(r.m) > 0
      [] OTHER -> TRUE

\* OrchestratorConfig(...) followed by __post_init__.
OrchestratorConfig(subscription_id, location, env_name, profile, resources, dry_run, what_if, apply, destroy) ==
    [subscription_id |-> subscription_id,
     location |-> location,
     env_name |-> env_name,
     profile |-> profile,
     resources |-> IF ResourcesTruthy(resources) THEN resources
                   ELSE DefaultResources,
     dry_run |-> dry_run,
     what_if |-> what_if,
     apply |-> apply,
     destroy |-> destroy,
     extra_params |-> EmptyDict]

(***************************************************************************)
(* resolve_config.                                                         *)
(***************************************************************************)
\* section.get(key, default) on a value that may not be a mapping:
\* None.get and "text".get raise AttributeError.
SectionGet(section, key, default) ==
    IF IsDict(section) THEN Returned(DictGet(section.m, key, default))
    ELSE Raised("AttributeError")

\* args.x or env_vars.get(K) or section.get(key, default), evaluated left to
\* right with Python's short circuit: the section is read only when the CLI
\* and the environment value are both falsy.
ScalarField(cli, env, envKey, section, key, default) ==
    IF Truthy(cli) THEN Returned(cli)
    ELSE IF Truthy(DictGet(env, envKey, None))
         THEN Returned(DictGet(env, envKey, None))
         ELSE SectionGet(section, key, default)

\* A slip: "and" in place of "or", so that the file alone cannot set a flag.
FlagFieldAnd(cli, section, key) ==
    IF ~cli THEN Returned(FALSE) ELSE SectionGet(section, key, FALSE)

\* args.flag or deployment_config.get(key, False)
FlagField(cli, section, key) ==
    IF cli THEN Returned(TRUE) ELSE SectionGet(section, key, FALSE)

\* The index of the first "=" of s, or 0.
FindEq(s) ==
    IF \E i \in 1..Len(s) : s[i] = "="
    THEN CHOOSE i \in 1..Len(s) : s[i] = "=" /\ \A j \in 1..(i - 1) : s[j] # "="
    ELSE 0

\* The loop over args.set: each KEY=VALUE is split on its first "=".
RECURSIVE ExtraParams(_, _)
ExtraParams(set, acc) ==
    IF set = << >> THEN acc
    ELSE LET param == Head(set)
             i == FindEq(param)
         IN ExtraParams(Tail(set),
                IF i = 0 THEN acc
                ELSE DictSet(acc, SubSeq(param, 1, i - 1),
                             SubSeq(param, i + 1, Len(param))))

resolve_config(a, env, yaml) ==
    IF ~IsDict(yaml) THEN Raised("AttributeError")
    ELSE
    LET empty == PyMap(EmptyDict)
        azure_config == DictGet(yaml.m, "azure", empty)
        env_config == DictGet(yaml.m, "environment", empty)
        resources_config == DictGet(yaml.m, "resources", PyMap(<< >>))
        deployment_config == DictGet(yaml.m, "deployment", empty)
        subscription_id ==
            ScalarField(a.subscription, env, "AZURE_SUBSCRIPTION_ID",
                        azure_config, "subscription_id", None)
        location ==
            ScalarField(a.location, env, "AZURE_LOCATION",
                        azure_config, "location", S_eastus)
        env_name ==
            ScalarField(a.env, env, "AZURE_ENV_NAME",
                        env_config, "name", S_dev)
        profile ==
            ScalarField(a.profile, env, "PROFILE",
                        env_config, "profile", S_default)
        dry_run == FlagField(a.dry_run, deployment_config, "dry_run")
        what_if == FlagField(a.what_if, deployment_config, "what_if")
    IN  IF \/ subscription_id.raised \/ location.raised \/ env_name.raised
           \/ profile.raised \/ dry_run.raised \/ what_if.raised
        THEN Raised("AttributeError")
        ELSE LET c == OrchestratorConfig(
                          subscription_id.value, location.value,
                          env_name.value, profile.value, resources_config,
                          dry_run.value, what_if.value, a.apply, a.destroy)
             IN Returned([c EXCEPT !.extra_params =
                             IF a.set = None THEN EmptyDict
                             ELSE ExtraParams(a.set, EmptyDict)])

(***************************************************************************)
(* build_infra_params.                                                     *)
(***************************************************************************)
\* s.split(sep): the words between the separators, empty words included.
RECURSIVE Split(_, _)
Split(s, sep) ==
    IF \A i \in 1..Len(s) : s[i] # sep THEN <<s>>
    ELSE LET i == CHOOSE k \in 1..Len(s) :
                      s[k] = sep /\ \A j \in 1..(k - 1) : s[j] # sep
         IN <<SubSeq(s, 1, i - 1)>> \o Split(SubSeq(s, i + 1, Len(s)), sep)

\* word.capitalize(): first character upper-cased, the rest lower-cased.
Capitalize(word) ==
    [i \in 1..Len(word) |-> IF i = 1 THEN Upper(word[i]) ELSE Lower(word[i])]

\* ''.join(words)
RECURSIVE Join(_)
Join(words) == IF words = << >> THEN << >> ELSE Head(words) \o Join(Tail(words))

\* ''.join(word.capitalize() for word in resource_name.split('_'))
Capitalized(resource_name) ==
    LET words == Split(resource_name, "_")
    IN Join([i \in 1..Len(words) |-> Capitalize(words[i])])

\* param_name[0].lower() + param_name[1:]: indexing the empty string raises.
CamelCase(resource_name) ==
    LET param_name == Capitalized(resource_name)
    IN IF param_name = << >> THEN Raised("IndexError")
       ELSE Returned(<<Lower(param_name[1])>> \o Tail(param_name))

\* resource_config.get('enabled', True), as a condition
Enabled(resource_config) == DictGet(resource_config.m, "enabled", TRUE)

\* The loop over config.resources.items(), in the mapping's order.
RECURSIVE ResourceParams(_, _)
ResourceParams(items, acc) ==
    IF items = << >> THEN Returned(acc)
    ELSE LET resource_name == Head(items).name
             resource_config == Head(items).spec
         IN IF IsDict(resource_config) /\ Enabled(resource_config)
            THEN LET param_name == CamelCase(resource_name)
                 IN IF param_name.raised THEN param_name
                    ELSE ResourceParams(Tail(items),
                             IF "sku" \in DOMAIN resource_config.m
                             THEN DictSet(acc, param_name.value \o S_Sku,
                                          resource_config.m["sku"])
                             ELSE acc)
            ELSE ResourceParams(Tail(items), acc)

\* params = {'location': ..., 'environmentName': ...}, plus subscriptionId
\* when config.subscription_id is truthy.
BaseParams(c) ==
    LET base == DictSet(DictSet(EmptyDict, S_location, c.location),
                        S_environmentName, c.env_name)
    IN IF Truthy(c.subscription_id)
       THEN DictSet(base, S_subscriptionId, c.subscription_id)
       ELSE base

build_infra_params(c) ==
    IF ~IsDict(c.resources) THEN Raised("AttributeError")
    ELSE LET r == ResourceParams(c.resources.m, BaseParams(c))
         IN IF r.raised THEN r
            ELSE Returned(DictUpdate(r.value, c.extra_params))

(***************************************************************************)
(* run, require_tools, get_tool_version.                                   *)
(***************************************************************************)
\* What subprocess.run does with a command: the process exits with status
\* zero or non-zero, the binary is not found (FileNotFoundError), or the
\* process cannot be started for another reason (PermissionError and the
\* other OSErrors).
RunKinds == {"zero", "nonzero", "notfound", "oserror"}

\* run(command, capture=True, check=False): FileNotFoundError becomes a
\* CompletedProcess with returncode 127; CalledProcessError is never raised
\* with check=False; any other exception propagates.
run(command, p) ==
    CASE p[command].kind = "zero" ->
             Returned([returncode |-> 0, stdout |-> p[command].stdout])
      [] p[command].kind = "nonzero" ->
             Returned([returncode |-> 1, stdout |-> p[command].stdout])
      [] p[command].kind = "notfound" ->
             Returned([returncode |-> 127, stdout |-> << >>])
      [] OTHER -> Raised("OSError")

\* The version-check command of a tool: bicep is a subcommand of az.
VersionCommand(tool) ==
    IF tool = "bicep" THEN <<"az", "bicep", "version">> ELSE <<tool, "--version">>

\* The loop of require_tools over its tool list.
RECURSIVE RequireLoop(_, _, _)
RequireLoop(ts, p, acc) ==
    IF ts = << >> THEN Returned(acc)
    ELSE LET result == run(VersionCommand(Head(ts)), p)
         IN IF result.raised THEN result
            ELSE RequireLoop(Tail(ts), p,
                             DictSet(acc, Head(ts), result.value.returncode = 0))

require_tools(ts, p) == RequireLoop(ts, p, EmptyDict)

\* stdout.strip() seen as lines: leading and trailing blank lines go.
RECURSIVE StripLines(_)
StripLines(lines) ==
    IF lines = << >> THEN << >>
    ELSE IF Head(lines) = EmptyStr THEN StripLines(Tail(lines))
    ELSE IF lines[Len(lines)] = EmptyStr
         THEN StripLines(SubSeq(lines, 1, Len(lines) - 1))
    ELSE lines

\* get_tool_version: the first line of the output of a successful version
\* check; every exception is swallowed by "except Exception: pass".
get_tool_version(tool, p) ==
    LET result == run(VersionCommand(tool), p)
    IN IF result.raised THEN Returned(None)
       ELSE IF result.value.returncode = 0
            THEN LET output == StripLines(result.value.stdout)
                 IN Returned(IF output # << >> THEN output[1] ELSE None)
            ELSE Returned(None)

(***************************************************************************)
(* load_yaml_config.                                                       *)
(***************************************************************************)
\* yaml.safe_load(f) or {} when the parser is there and the file exists,
\* {} otherwise. An empty file loads as None, which "or" turns into {}.
load_yaml_config(HAS_YAML, exists, doc) ==
    IF HAS_YAML /\ exists
    THEN (IF doc.kind = "none" THEN PyMap(EmptyDict) ELSE doc)
    ELSE PyMap(EmptyDict)

(***************************************************************************)
(* The inputs of a run.                                                    *)
(***************************************************************************)
NoArgs == [kind |-> "unset"]
NoConfig == [kind |-> "unset"]
NoParams == [kind |-> "unset"]
NoResults == [kind |-> "unset"]
NoExc == "none"
NoExit == -1

\* Every mapping from a subset of the keys K to values in V.
Dicts(K, V) == UNION {[D -> V] : D \in SUBSET K}

\* What load_yaml_config returns for the documents Docs.
Loaded(Docs) ==
    {load_yaml_config(h, x, d) : h \in BOOLEAN, x \in BOOLEAN, d \in Docs}

\* A value argparse stores for --subscription, --location, --env, --profile:
\* None (flag absent), "" or a name.
CliValues == {None, EmptyStr, <<"c">>}

\* A value of an entry of the .env file: KEY= or KEY=e.
EnvValues == {EmptyStr, <<"e">>}
EnvKeys == {"AZURE_SUBSCRIPTION_ID", "AZURE_LOCATION", "AZURE_ENV_NAME", "PROFILE"}

\* A value of a string entry of config.yaml: null, "" or a name.
YamlValues == {None, EmptyStr, <<"y">>}

\* The azure and environment sections: missing, null, a non-mapping, or a
\* mapping holding any of its two entries.
AzureSections ==
    {PyNone, PyScalar}
        \cup {PyMap(f) : f \in Dicts({"subscription_id", "location"}, YamlValues)}
EnvironmentSections ==
    {PyNone, PyScalar} \cup {PyMap(f) : f \in Dicts({"name", "profile"}, YamlValues)}
DeploymentSections ==
    {PyNone, PyScalar} \cup {PyMap(f) : f \in Dicts({"dry_run", "what_if"}, BOOLEAN)}

\* A document from the sections given: each section is missing or one of them.
Doc(az, en, re, de) ==
    LET present == {k \in {"azure", "environment", "resources", "deployment"} :
                       CASE k = "azure" -> az # NoArgs
                         [] k = "environment" -> en # NoArgs
                         [] k = "resources" -> re # NoArgs
                         [] OTHER -> de # NoArgs}
    IN PyMap([k \in present |->
                 CASE k = "azure" -> az
                   [] k = "environment" -> en
                   [] k = "resources" -> re
                   [] OTHER -> de])

Missing(S) == S \cup {NoArgs}

\* The resources mappings: entries in file order, names unique.
NameChars == {"a", "B", "_"}
ResourceNames == SeqsUpTo(NameChars, MaxNameLen)
Skus == {<<"S", "1">>, <<"S", "2">>}
ResourceSpecs ==
    {PyScalar, PyMap(EmptyDict), PyMap([enabled |-> FALSE])}
        \cup {PyMap([sku |-> k]) : k \in Skus}
        \cup {PyMap([enabled |-> TRUE, sku |-> <<"S", "1">>]),
              PyMap([enabled |-> FALSE, sku |-> <<"S", "2">>])}
ResourceMaps ==
    {PyMap(items) : items \in
        {s \in SeqsUpTo([name : ResourceNames, spec : ResourceSpecs], MaxResources) :
            \A i, j \in 1..Len(s) : i # j => s[i].name # s[j].name}}

\* A few resources sections: null, a non-mapping, empty, one entry with a
\* sku, one entry whose name is a lone underscore.
SomeResources ==
    {PyNone, PyScalar, PyMap(<< >>),
     PyMap(<<[name |-> <<"a">>, spec |-> PyMap([sku |-> <<"S", "1">>])]>>),
     PyMap(<<[name |-> <<"_">>, spec |-> PyMap([enabled |-> TRUE])]>>)}

\* --set arguments
SetParams ==
    {<<"k", "=", "v">>, <<"k", "=", "w">>, <<"k">>, <<"j", "=", "v", "=", "w">>}
SetValues == {None} \cup SeqsUpTo(SetParams, MaxSet)

Idle(A, E, Y) ==
    /\ args \in A
    /\ env_vars \in E
    /\ yaml_config \in Y
    /\ config = NoConfig
    /\ params = NoParams
    /\ proc = << >>
    /\ tools = << >>
    /\ results = NoResults
    /\ version = EmptyDict
    /\ pc = "start"
    /\ branch = "Idle"
    /\ calls = << >>
    /\ exc = NoExc
    /\ exit_code = NoExit

\* An uncaught exception ends the interpreter with status 1.
Raise(e) ==
    /\ exc' = e
    /\ pc' = "raised"
    /\ exit_code' = 1

(***************************************************************************)
(* resolve_config on every combination of scalar sources, and on the       *)
(* shapes of the other sections.                                           *)
(***************************************************************************)
ScalarArgs ==
    [subscription : CliValues, location : CliValues, env : CliValues,
     profile : CliValues, dry_run : {FALSE}, what_if : {FALSE},
     apply : {FALSE}, destroy : {FALSE}, resources : {FALSE}, set : {None}]

ScalarYaml ==
    Loaded({Doc(az, en, NoArgs, NoArgs) :
               az \in Missing(AzureSections), en \in Missing(EnvironmentSections)})

ShapeArgs ==
    [subscription : {None}, location : {None, <<"c">>}, env : {None},
     profile : {None}, dry_run : BOOLEAN, what_if : BOOLEAN,
     apply : BOOLEAN, destroy : BOOLEAN, resources : BOOLEAN, set : SetValues]

ShapeYaml ==
    Loaded({PyNone, PyScalar}
           \cup {Doc(az, NoArgs, re, de) :
                    az \in {NoArgs, PyNone}, re \in Missing(SomeResources),
                    de \in Missing(DeploymentSections)})

InitResolve ==
    \/ Idle(ScalarArgs, Dicts(EnvKeys, EnvValues), ScalarYaml)
    \/ Idle(ShapeArgs, {EmptyDict}, ShapeYaml)

\* config = resolve_config(args)
ResolveConfig ==
    /\ pc = "start"
    /\ LET r == resolve_config(args, env_vars, yaml_config)
       IN IF r.raised
          THEN /\ Raise(r.value)
               /\ UNCHANGED config
          ELSE /\ config' = r.value
               /\ pc' = "resolved"
               /\ UNCHANGED <<exc, exit_code>>
    /\ UNCHANGED <<args, env_vars, yaml_config, params, proc, tools, results,
                   version, branch, calls>>

SpecResolve == InitResolve /\ [][ResolveConfig]_vars

(***************************************************************************)
(* build_infra_params on the configurations resolve_config can build.      *)
(***************************************************************************)
ExtraKeys == {S_location, S_subscriptionId, <<"a">> \o S_Sku}

BuildConfig(sub, loc, re, extra) ==
    [OrchestratorConfig(sub, loc, S_dev, S_default, re, FALSE, FALSE, FALSE, FALSE)
        EXCEPT !.extra_params = extra]

InitBuild ==
    /\ args = NoArgs
    /\ env_vars = EmptyDict
    /\ yaml_config = PyMap(EmptyDict)
    /\ \E sub \in {None, EmptyStr, <<"s">>}, loc \in {S_eastus, <<"c">>},
          re \in ResourceMaps, extra \in Dicts(ExtraKeys, {<<"o">>}) :
           config = BuildConfig(sub, loc, re, extra)
    /\ params = NoParams
    /\ proc = << >>
    /\ tools = << >>
    /\ results = NoResults
    /\ version = EmptyDict
    /\ pc = "resolved"
    /\ branch = "Idle"
    /\ calls = << >>
    /\ exc = NoExc
    /\ exit_code = NoExit

\* params = build_infra_params(config)
BuildInfraParams ==
    /\ pc = "resolved"
    /\ LET r == build_infra_params(config)
       IN IF r.raised
          THEN /\ Raise(r.value)
               /\ UNCHANGED params
          ELSE /\ params' = r.value
               /\ pc' = "built"
               /\ UNCHANGED <<exc, exit_code>>
    /\ UNCHANGED <<args, env_vars, yaml_config, config, proc, tools, results,
                   version, branch, calls>>

SpecBuild == InitBuild /\ [][BuildInfraParams]_vars
(***************************************************************************)
(* require_tools and get_tool_version on every outcome of the commands.    *)
(***************************************************************************)
ToolNames == {"az", "bicep", "git"}
Commands == {VersionCommand(t) : t \in ToolNames}

\* What a version check prints: nothing, one line, or a blank line and two
\* lines.
Stdouts == {<< >>, <<<<"1">>>>, <<EmptyStr, <<"1">>, <<"2">>>>}

ProcOutcomes ==
    {[kind |-> k, stdout |-> out] : k \in {"zero", "nonzero"}, out \in Stdouts}
        \cup {[kind |-> k, stdout |-> << >>] : k \in {"notfound", "oserror"}}

InitTools ==
    /\ args = NoArgs
    /\ env_vars = EmptyDict
    /\ yaml_config = PyMap(EmptyDict)
    /\ config = NoConfig
    /\ params = NoParams
    /\ proc \in [Commands -> ProcOutcomes]
    /\ tools \in SeqsUpTo(ToolNames, MaxTools)
    /\ results = NoResults
    /\ version = EmptyDict
    /\ pc = "probe"
    /\ branch = "Idle"
    /\ calls = << >>
    /\ exc = NoExc
    /\ exit_code = NoExit

\* results = require_tools(tools)
RequireTools ==
    /\ pc = "probe"
    /\ results = NoResults
    /\ LET r == require_tools(tools, proc)
       IN IF r.raised
          THEN /\ Raise(r.value)
               /\ UNCHANGED results
          ELSE /\ results' = r.value
               /\ UNCHANGED <<pc, exc, exit_code>>
    /\ UNCHANGED <<args, env_vars, yaml_config, config, params, proc, tools,
                   version, branch, calls>>

\* version[tool] = get_tool_version(tool)
GetToolVersion ==
    /\ pc = "probe"
    /\ \E tool \in ToolNames :
          /\ tool \notin DOMAIN version
          /\ LET r == get_tool_version(tool, proc)
             IN IF r.raised
                THEN /\ Raise(r.value)
                     /\ UNCHANGED version
                ELSE /\ version' = DictSet(version, tool, r.value)
                     /\ UNCHANGED <<pc, exc, exit_code>>
    /\ UNCHANGED <<args, env_vars, yaml_config, config, params, proc, tools,
                   results, branch, calls>>

SpecTools == InitTools /\ [][RequireTools \/ GetToolVersion]_vars

(***************************************************************************)
(* main: resolve, print, dispatch on the action flags.                     *)
(***************************************************************************)
\* print_config: the loop over config.resources.items(), then
\* build_infra_params(config).
PrintConfig ==
    /\ pc = "resolved"
    /\ LET r == build_infra_params(config)
       IN IF r.raised
          THEN /\ Raise(r.value)
               /\ UNCHANGED params
          ELSE /\ params' = r.value
               /\ pc' = "dispatch"
               /\ UNCHANGED <<exc, exit_code>>
    /\ UNCHANGED <<args, env_vars, yaml_config, config, proc, tools, results,
                   version, branch, calls>>

\* A slip: the apply test moved above the what-if test.
SelectBranchApplyFirst(c) ==
    IF c.dry_run THEN "DryRun"
    ELSE IF c.apply THEN "Apply"
    ELSE IF c.what_if THEN "WhatIf"
    ELSE IF c.destroy THEN "Destroy"
    ELSE "None"

\* The chain of "if config.<flag>: ... return 0" of main, in its order.
SelectBranch(c) ==
    IF c.dry_run THEN "DryRun"
    ELSE IF c.what_if THEN "WhatIf"
    ELSE IF c.apply THEN "Apply"
    ELSE IF c.destroy THEN "Destroy"
    ELSE "None"

\* Where a branch goes first: dry-run and what-if call check_tools, the
\* others print a notice at most and return.
BranchEntry(b) == IF b \in {"DryRun", "WhatIf"} THEN "check_tools" ELSE "return"

Dispatch ==
    /\ pc = "dispatch"
    /\ branch' = SelectBranch(config)
    /\ pc' = BranchEntry(SelectBranch(config))
    /\ UNCHANGED <<args, env_vars, yaml_config, config, params, proc, tools,
                   results, version, calls, exc, exit_code>>

\* The tools check_tools probes, and those it requires.
CheckedTools == <<"az", "azd", "bicep", "docker", "git">>
RequiredTools == {"az", "azd", "bicep"}
CheckedCommands == {VersionCommand(CheckedTools[i]) : i \in DOMAIN CheckedTools}

\* check_tools(): False when a required tool is unavailable. The versions
\* it prints come from get_tool_version, which cannot raise.
check_tools(p) ==
    LET r == require_tools(CheckedTools, p)
    IN IF r.raised THEN r
       ELSE Returned(\A t \in RequiredTools : DictGet(r.value, t, FALSE))

CheckTools ==
    /\ pc = "check_tools"
    /\ \E kinds \in [CheckedCommands -> RunKinds] :
          LET p == [c \in CheckedCommands |-> [kind |-> kinds[c], stdout |-> << >>]]
              r == check_tools(p)
          IN IF r.raised
             THEN /\ Raise(r.value)
                  /\ calls' = Append(calls, [fn |-> "check_tools", raised |-> TRUE, ret |-> FALSE])
             ELSE /\ calls' = Append(calls, [fn |-> "check_tools", raised |-> FALSE, ret |-> r.value])
                  /\ pc' = "validate"
                  /\ UNCHANGED <<exc, exit_code>>
    /\ UNCHANGED <<args, env_vars, yaml_config, config, params, proc, tools,
                   results, version, branch>>

\* bicep_validate(file): False when the file is gone or az bicep build
\* fails; the build is started through run.
BicepKinds == RunKinds \cup {"missing"}
bicep_validate(kind) ==
    CASE kind = "missing" -> Returned(FALSE)
      [] kind = "oserror" -> Raised("OSError")
      [] OTHER -> Returned(kind = "zero")

\* The loop of validate_bicep_files over the files found.
RECURSIVE ValidateLoop(_, _)
ValidateLoop(files, all_valid) ==
    IF files = << >> THEN Returned(all_valid)
    ELSE LET v == bicep_validate(Head(files))
         IN IF v.raised THEN v
            ELSE ValidateLoop(Tail(files), all_valid /\ v.value)

\* validate_bicep_files(): False without an infra directory or without
\* *.bicep files in it.
validate_bicep_files(infra_exists, files) ==
    IF ~infra_exists THEN Returned(FALSE)
    ELSE IF files = << >> THEN Returned(FALSE)
    ELSE ValidateLoop(files, TRUE)

ValidateBicepFiles ==
    /\ pc = "validate"
    /\ \E infra_exists \in BOOLEAN, files \in SeqsUpTo(BicepKinds, MaxBicepFiles) :
          LET r == validate_bicep_files(infra_exists, files)
          IN IF r.raised
             THEN /\ Raise(r.value)
                  /\ calls' = Append(calls, [fn |-> "validate_bicep_files", raised |-> TRUE, ret |-> FALSE])
             ELSE /\ calls' = Append(calls, [fn |-> "validate_bicep_files", raised |-> FALSE, ret |-> r.value])
                  /\ pc' = "return"
                  /\ UNCHANGED <<exc, exit_code>>
    /\ UNCHANGED <<args, env_vars, yaml_config, config, params, proc, tools,
                   results, version, branch>>

\* return 0
Return ==
    /\ pc = "return"
    /\ exit_code' = 0
    /\ pc' = "done"
    /\ UNCHANGED <<args, env_vars, yaml_config, config, params, proc, tools,
                   results, version, branch, calls, exc>>

MainArgs ==
    [subscription : {None, <<"c">>}, location : {None, <<"c">>}, env : {None},
     profile : {None}, dry_run : BOOLEAN, what_if : BOOLEAN,
     apply : BOOLEAN, destroy : BOOLEAN, resources : {FALSE}, set : {None}]

MainYaml ==
    Loaded({PyNone, PyScalar}
           \cup {Doc(az, NoArgs, re, de) :
                    az \in {NoArgs, PyNone}, re \in Missing(SomeResources),
                    de \in Missing(DeploymentSections)})

Init == Idle(MainArgs, {EmptyDict}, MainYaml)

Next ==
    \/ ResolveConfig
    \/ PrintConfig
    \/ Dispatch
    \/ CheckTools
    \/ ValidateBicepFiles
    \/ Return

Spec == Init /\ [][Next]_vars
(***************************************************************************)
(* Properties of resolve_config (checked under SpecResolve).               *)
(***************************************************************************)
\* The CLI attribute, the .env key, the config.yaml section and entry, and
\* the default behind each scalar field of the configuration.
ScalarFields == {"subscription_id", "location", "env_name", "profile"}
CliName(f) ==
    CASE f = "subscription_id" -> "subscription"
      [] f = "location" -> "location"
      [] f = "env_name" -> "env"
      [] OTHER -> "profile"
EnvKey(f) ==
    CASE f = "subscription_id" -> "AZURE_SUBSCRIPTION_ID"
      [] f = "location" -> "AZURE_LOCATION"
      [] f = "env_name" -> "AZURE_ENV_NAME"
      [] OTHER -> "PROFILE"
YamlSection(f) == IF f \in {"subscription_id", "location"} THEN "azure" ELSE "environment"
YamlEntry(f) == IF f = "env_name" THEN "name" ELSE f
DefaultOf(f) ==
    CASE f = "subscription_id" -> None
      [] f = "location" -> S_eastus
      [] f = "env_name" -> S_dev
      [] OTHER -> S_default

\* The value config.yaml holds for field f: None when the document, the
\* section or the entry is missing or the section is no mapping.
YamlValueOf(f) ==
    IF /\ IsDict(yaml_config)
       /\ YamlSection(f) \in DOMAIN yaml_config.m
       /\ IsDict(yaml_config.m[YamlSection(f)])
    THEN DictGet(yaml_config.m[YamlSection(f)].m, YamlEntry(f), None)
    ELSE None

\* The first non-empty value in the order CLI, environment, file, default.
FirstNonEmpty(f) ==
    IF Truthy(args[CliName(f)]) THEN args[CliName(f)]
    ELSE IF Truthy(DictGet(env_vars, EnvKey(f), None))
         THEN DictGet(env_vars, EnvKey(f), None)
    ELSE IF Truthy(YamlValueOf(f)) THEN YamlValueOf(f)
    ELSE DefaultOf(f)

ResolveCalled == pc # "start"
ResolveReturned == pc = "resolved"

\* C1: a non-empty CLI value for a scalar field is the value resolve_config
\* returns for that field, whatever the environment mapping and the
\* structured file hold; and replacing the CLI value of one field by any
\* other value leaves the resolved value of every other field as it is.
C1_CliValueWins ==
    /\ \A f \in ScalarFields :
          ResolveCalled /\ Truthy(args[CliName(f)]) =>
              ResolveReturned /\ config[f] = args[CliName(f)]
    /\ ResolveReturned =>
          \A f \in ScalarFields : \A g \in ScalarFields \ {f}, v \in CliValues :
              LET other == resolve_config([args EXCEPT ![CliName(g)] = v],
                                          env_vars, yaml_config)
              IN ~other.raised /\ other.value[f] = config[f]

\* What holds of C1 on the runs where resolve_config returns: the CLI value
\* wins, and a sibling's CLI value changes no resolved value that exists.
CliValueWinsWhenReturned ==
    ResolveReturned =>
        /\ \A f \in ScalarFields :
              Truthy(args[CliName(f)]) => config[f] = args[CliName(f)]
        /\ \A f \in ScalarFields : \A g \in ScalarFields \ {f}, v \in CliValues :
              LET other == resolve_config([args EXCEPT ![CliName(g)] = v],
                                          env_vars, yaml_config)
              IN ~other.raised => other.value[f] = config[f]

\* The structured file has an entry for field f.
YamlHasEntry(f) ==
    /\ IsDict(yaml_config)
    /\ YamlSection(f) \in DOMAIN yaml_config.m
    /\ IsDict(yaml_config.m[YamlSection(f)])
    /\ YamlEntry(f) \in DOMAIN yaml_config.m[YamlSection(f)].m

\* Two values of a field agree; for subscriptionId, whose default is
\* "unset", None and "" both count as unset.
SameValue(f, v, w) == v = w \/ (f = "subscription_id" /\ ~Truthy(v) /\ ~Truthy(w))

\* C2: whenever resolve_config returns, each scalar field holds the first
\* non-empty value in the order CLI, environment, structured file, default;
\* an empty or missing value in a source, an entry of the structured file
\* that is present but empty included, falls through to the next one.
C2_FirstNonEmptyWins ==
    ResolveReturned =>
        \A f \in ScalarFields : SameValue(f, config[f], FirstNonEmpty(f))

\* What holds of C2: the precedence is as claimed except that an entry of
\* the structured file that is present but empty (or null) is returned as
\* it is, in place of the default.
FirstNonEmptyWinsUnlessEmptyEntry ==
    ResolveReturned =>
        \A f \in ScalarFields :
            \/ SameValue(f, config[f], FirstNonEmpty(f))
            \/ /\ ~Truthy(args[CliName(f)])
               /\ ~Truthy(DictGet(env_vars, EnvKey(f), None))
               /\ YamlHasEntry(f)
               /\ ~Truthy(YamlValueOf(f))
               /\ config[f] = YamlValueOf(f)

\* C3: resolve_config never raises, whatever the CLI arguments and the
\* content of the environment file and of the structured file (a section
\* missing, null, or a non-mapping included).
C3_ResolveNeverRaises == ResolveCalled => ResolveReturned /\ exc = NoExc

(***************************************************************************)
(* Properties of build_infra_params (checked under SpecBuild).             *)
(***************************************************************************)
BuildCalled == pc # "resolved"
BuildReturned == pc = "built"

\* The key the camel-casing rule gives a resource name: split on "_",
\* capitalize each word, lower-case the first character of the joined
\* result (nothing to lower-case when it is empty), then the suffix Sku.
SkuKey(resource_name) ==
    LET joined == Capitalized(resource_name)
    IN (IF joined = << >> THEN << >> ELSE <<Lower(joined[1])>> \o Tail(joined))
           \o S_Sku

\* The entry is a mapping, enabled (true or absent) and has a sku key.
Contributes(item) ==
    /\ IsDict(item.spec)
    /\ DictGet(item.spec.m, "enabled", TRUE)
    /\ "sku" \in DOMAIN item.spec.m

BaseKeys == {S_location, S_environmentName, S_subscriptionId}

\* C6: with no extra parameters, every enabled entry of resources with a
\* sku puts its sku under the camel-cased name suffixed Sku, and the other
\* entries put nothing in the output.
C6_SkuParameterPerEntry ==
    config.extra_params = EmptyDict =>
        /\ \A i \in DOMAIN config.resources.m :
              BuildCalled /\ Contributes(config.resources.m[i]) =>
                  /\ BuildReturned
                  /\ SkuKey(config.resources.m[i].name) \in DOMAIN params
                  /\ params[SkuKey(config.resources.m[i].name)]
                         = config.resources.m[i].spec.m["sku"]
        /\ BuildReturned =>
              \A k \in (DOMAIN params) \ BaseKeys :
                  \E i \in DOMAIN config.resources.m :
                      /\ Contributes(config.resources.m[i])
                      /\ k = SkuKey(config.resources.m[i].name)

\* What holds of C6 on the runs where build_infra_params returns: each key
\* holds the sku of the last contributing entry with that key.
SkuParameterOfLastEntry ==
    BuildReturned /\ config.extra_params = EmptyDict =>
        /\ \A i \in DOMAIN config.resources.m :
              Contributes(config.resources.m[i]) =>
                  /\ SkuKey(config.resources.m[i].name) \in DOMAIN params
                  /\ \E j \in i..Len(config.resources.m) :
                        /\ Contributes(config.resources.m[j])
                        /\ SkuKey(config.resources.m[j].name)
                               = SkuKey(config.resources.m[i].name)
                        /\ params[SkuKey(config.resources.m[i].name)]
                               = config.resources.m[j].spec.m["sku"]
                        /\ \A l \in (j + 1)..Len(config.resources.m) :
                              Contributes(config.resources.m[l]) =>
                                  SkuKey(config.resources.m[l].name)
                                      # SkuKey(config.resources.m[i].name)
        /\ \A k \in (DOMAIN params) \ BaseKeys :
              \E i \in DOMAIN config.resources.m :
                  /\ Contributes(config.resources.m[i])
                  /\ k = SkuKey(config.resources.m[i].name)

\* C7: the output holds every extra parameter with its value; for the keys
\* no extra parameter names, location and environmentName are the
\* configuration's, and subscriptionId is there, with the configuration's
\* value, exactly when the configuration has one.
C7_ExtraParamsWin ==
    BuildCalled =>
        /\ BuildReturned
        /\ \A k \in DOMAIN config.extra_params :
              k \in DOMAIN params /\ params[k] = config.extra_params[k]
        /\ S_location \notin DOMAIN config.extra_params =>
              S_location \in DOMAIN params /\ params[S_location] = config.location
        /\ S_environmentName \notin DOMAIN config.extra_params =>
              /\ S_environmentName \in DOMAIN params
              /\ params[S_environmentName] = config.env_name
        /\ S_subscriptionId \notin DOMAIN config.extra_params =>
              /\ S_subscriptionId \in DOMAIN params <=> Truthy(config.subscription_id)
              /\ S_subscriptionId \in DOMAIN params =>
                     params[S_subscriptionId] = config.subscription_id

\* What holds of C7 on the runs where build_infra_params returns.
ExtraParamsWinWhenReturned ==
    BuildReturned =>
        /\ \A k \in DOMAIN config.extra_params :
              k \in DOMAIN params /\ params[k] = config.extra_params[k]
        /\ S_location \notin DOMAIN config.extra_params =>
              S_location \in DOMAIN params /\ params[S_location] = config.location
        /\ S_environmentName \notin DOMAIN config.extra_params =>
              /\ S_environmentName \in DOMAIN params
              /\ params[S_environmentName] = config.env_name
        /\ S_subscriptionId \notin DOMAIN config.extra_params =>
              /\ S_subscriptionId \in DOMAIN params <=> Truthy(config.subscription_id)
              /\ S_subscriptionId \in DOMAIN params =>
                     params[S_subscriptionId] = config.subscription_id

\* C8: build_infra_params never raises on a configuration whose resources
\* is a mapping, whatever its names (empty, only underscores) and values.
C8_BuildNeverRaises ==
    BuildCalled /\ IsDict(config.resources) => BuildReturned /\ exc = NoExc

(***************************************************************************)
(* Properties of the tool probes (checked under SpecTools).                *)
(***************************************************************************)
\* C9: require_tools and get_tool_version return without raising on every
\* outcome of the version check; a tool is available exactly when the check
\* exits with status zero; a tool whose binary is not found is unavailable
\* and has no version.
C9_ProbesNeverRaise ==
    /\ exc = NoExc
    /\ results # NoResults =>
          /\ DOMAIN results = {tools[i] : i \in DOMAIN tools}
          /\ \A t \in DOMAIN results :
                results[t] <=> proc[VersionCommand(t)].kind = "zero"
          /\ \A t \in DOMAIN results :
                proc[VersionCommand(t)].kind = "notfound" => ~results[t]
    /\ \A t \in DOMAIN version :
          proc[VersionCommand(t)].kind = "notfound" => version[t] = None

\* What holds of C9: get_tool_version never raises, and whenever
\* require_tools returns its answers are as claimed.
ProbesAnswerWhenReturned ==
    /\ \A t \in ToolNames : ~get_tool_version(t, proc).raised
    /\ results # NoResults =>
          /\ DOMAIN results = {tools[i] : i \in DOMAIN tools}
          /\ \A t \in DOMAIN results :
                results[t] <=> proc[VersionCommand(t)].kind = "zero"
    /\ \A t \in DOMAIN version :
          proc[VersionCommand(t)].kind # "zero" => version[t] = None
    /\ require_tools(tools, proc).raised <=>
          \E i \in DOMAIN tools : proc[VersionCommand(tools[i])].kind = "oserror"

(***************************************************************************)
(* Properties of main (checked under Spec).                                *)
(***************************************************************************)
Dispatched == branch # "Idle"

\* C4: the dispatch enters exactly one branch, the first in the order
\* dryRun, whatIf, apply, destroy, none whose flag is set in the resolved
\* configuration; a branch once entered is never left for another; and the
\* Apply, Destroy and report-only branches call neither the tool check nor
\* the file validation.
C4_FirstMatchDispatch ==
    /\ [](Dispatched =>
            /\ branch \in {"DryRun", "WhatIf", "Apply", "Destroy", "None"}
            /\ branch = "DryRun" <=> config.dry_run
            /\ branch = "WhatIf" <=> ~config.dry_run /\ config.what_if
            /\ branch = "Apply" <=>
                   ~config.dry_run /\ ~config.what_if /\ config.apply
            /\ branch = "Destroy" <=>
                   /\ ~config.dry_run /\ ~config.what_if
                   /\ ~config.apply /\ config.destroy
            /\ branch = "None" <=>
                   /\ ~config.dry_run /\ ~config.what_if
                   /\ ~config.apply /\ ~config.destroy
            /\ branch \in {"Apply", "Destroy", "None"} => calls = << >>)
    /\ [](~Dispatched => calls = << >> /\ pc \in {"start", "resolved", "dispatch", "raised"})
    /\ [][Dispatched => branch' = branch]_vars

\* A run with --what-if, --apply and --destroy all given went through the
\* WhatIf branch and returned.
C4_Witness ==
    /\ pc = "done"
    /\ branch = "WhatIf"
    /\ config.what_if /\ config.apply /\ config.destroy

\* C5: in dry-run and what-if modes the run calls the tool check, then the
\* file validation, and returns 0, whatever the two find; nothing they meet
\* aborts the run.
C5_DryRunAlwaysCompletes ==
    branch \in {"DryRun", "WhatIf"} =>
        /\ pc # "raised"
        /\ pc = "check_tools" => calls = << >>
        /\ pc = "validate" =>
               Len(calls) = 1 /\ calls[1].fn = "check_tools"
        /\ pc \in {"return", "done"} =>
               /\ Len(calls) = 2
               /\ calls[1].fn = "check_tools"
               /\ calls[2].fn = "validate_bicep_files"
        /\ pc = "done" => exit_code = 0

\* What holds of C5: the order of the two checks and the exit code are as
\* claimed, a failed check (a False return) aborts nothing, and the only
\* thing that aborts the run is a command that cannot be started for a
\* reason other than a missing binary.
DryRunCompletesUnlessOSError ==
    branch \in {"DryRun", "WhatIf"} =>
        /\ pc = "raised" =>
               /\ exc = "OSError"
               /\ calls # << >> /\ calls[Len(calls)].raised
        /\ pc = "check_tools" => calls = << >>
        /\ pc = "validate" =>
               Len(calls) = 1 /\ calls[1].fn = "check_tools"
        /\ pc \in {"return", "done"} =>
               /\ Len(calls) = 2
               /\ calls[1].fn = "check_tools"
               /\ calls[2].fn = "validate_bicep_files"
        /\ pc = "done" => exit_code = 0

\* deployment.<key> as load_yaml_config returned it, False when missing.
YamlFlag(key) ==
    /\ IsDict(yaml_config)
    /\ "deployment" \in DOMAIN yaml_config.m
    /\ IsDict(yaml_config.m["deployment"])
    /\ DictGet(yaml_config.m["deployment"].m, key, FALSE)

\* C10: the resolved dry_run and what_if are the CLI flag or-ed with the
\* structured file's deployment entry, so the command line cannot turn off
\* what the file turns on; when the file sets deployment.dry_run, the only
\* branch a run ever enters is DryRun, whatever flags are passed.
C10_FileFlagCannotBeTurnedOff ==
    /\ pc \in {"resolved", "dispatch", "check_tools", "validate", "return", "done"} =>
          /\ config.dry_run <=> (args.dry_run \/ YamlFlag("dry_run"))
          /\ config.what_if <=> (args.what_if \/ YamlFlag("what_if"))
    /\ YamlFlag("dry_run") => branch \in {"Idle", "DryRun"}
    /\ YamlFlag("dry_run") /\ pc \in {"check_tools", "validate", "return", "done"} =>
          branch = "DryRun"

\* The file sets deployment.dry_run, the command line gives --what-if,
\* --apply and --destroy but not --dry-run, and the run went through DryRun.
C10_Witness ==
    /\ YamlFlag("dry_run")
    /\ ~args.dry_run /\ args.what_if /\ args.apply /\ args.destroy
    /\ branch = "DryRun"
    /\ pc = "done"
====
